---- MODULE Spec2Model ----
(***************************************************************************)
(* Model of the prime caches of JamesDevlin5/PrimeChecker.                 *)
(*                                                                         *)
(* Two copies of the cache classes exist in the repository and they differ:*)
(*   "prime" : src/prime.py                                                *)
(*   "det"   : src/primes/deterministic_prime.py                           *)
(* The variable impl says which copy an object was created from.           *)
(*                                                                         *)
(* A Python call either returns a value or raises.  Every operator that    *)
(* models a call returns a record with the fields err ("none" or the name  *)
(* of the exception raised) and val (the value returned).                  *)
(***************************************************************************)
EXTENDS Integers, Sequences, FiniteSets, TLC

(* ------------------------------ bounds --------------------------------- *)

\* growth of the watermark is cut off here: queries whose square root lies
\* above it are not issued
MaxWatermark == 103

\* OrderedList items and ceilings are drawn from (EmptyMax - 1)..MaxItem
MaxItem == 5

\* every integer 0..MaxSmallQuery is a query
MaxSmallQuery == 110

\* the two caches are cross-checked on every integer 2..MaxCrossQuery
MaxCrossQuery == 50

\* SieveOfEratosthenes is built with every ceiling 0..MaxSieveLimit
MaxSieveLimit == 12

\* and a freshly built sieve is asked is_prime(v) for every v 0..MaxSieveQuery
MaxSieveQuery == 20

\* the tests of probabilistic_prime.py are asked about 0..MaxCandidate
MaxCandidate == 12

\* load_prime is called on a cache with values up to MaxLoad
MaxLoad == 105

\* the gcd methods are called with every pair of 0..MaxGcdArg
MaxGcdArg == 8

\* gcd_many is handed lists of up to MaxListLen elements
MaxListLen == 3

(* ------------------------- program constants --------------------------- *)

\* src/prime.py:117-143, src/primes/deterministic_prime.py:95-121
SMALL_PRIME_NUMS ==
    << 2, 3, 5, 7, 11, 13, 17, 19, 23, 29, 31, 37, 41, 43, 47, 53, 59, 61,
       67, 71, 73, 79, 83, 89, 97 >>

\* SmallPrimesCache.highest_tested: "return 100"
SmallHighestTested == 100

\* OrderedList.max_elem of the empty list: "else -1"
EmptyMax == -1

Impls == {"prime", "det"}

NoVal == "NoVal"

Ok(v) == [err |-> "none", val |-> v]
Raise(e) == [err |-> e, val |-> NoVal]

(* --------------------------- mathematics ------------------------------- *)
\* Reference notions the claims are stated with; not taken from the code.

\* the largest r' >= r in steps of step with r' * r' <= n, refined to step 1
RECURSIVE SqrtFrom(_, _, _)
SqrtFrom(n, r, step) ==
    IF (r + step) * (r + step) <= n THEN SqrtFrom(n, r + step, step)
    ELSE IF step = 1 THEN r
    ELSE SqrtFrom(n, r, 1)

\* floor of the square root of n >= 0
FloorSqrt(n) == SqrtFrom(n, 0, 10)

IsPrimeNumber(n) ==
    /\ n >= 2
    /\ \A d \in 2..FloorSqrt(n) : n % d # 0

\* the primes in [2, hi] in increasing order
PrimesUpTo(hi) == SelectSeq([i \in 1..hi |-> i], IsPrimeNumber)

StrictlyIncreasing(s) == \A i, j \in 1..Len(s) : i < j => s[i] < s[j]

IsPrefix(s, t) == Len(s) <= Len(t) /\ SubSeq(t, 1, Len(s)) = s

\* the elements of s that are <= c, in order
ElementsAtMost(s, c) == SelectSeq(s, LAMBDA x : x <= c)

(* ----------------------------- round_sqrt ------------------------------ *)

\* floor(sqrt(num)).  src/prime.py imports floor and sqrt from math (line 5).
\* src/primes/deterministic_prime.py has no import statement at all, so the
\* names floor and sqrt do not resolve there and the call raises NameError.
\* math.sqrt of a negative number raises ValueError.
round_sqrt(im, num) ==
    IF im = "det" THEN Raise("NameError")
    ELSE IF num < 0 THEN Raise("ValueError")
    ELSE Ok(FloorSqrt(num))

(* ----------------------------- OrderedList ----------------------------- *)

max_elem(self) == IF Len(self) > 0 THEN self[Len(self)] ELSE EmptyMax

\* append that also accepts the current maximum
append_ge(self, item) ==
    IF item >= max_elem(self) THEN Append(self, item) ELSE self

append(self, item) ==
    IF item > max_elem(self) THEN Append(self, item) ELSE self

\* "while self[idx] <= ceiling: idx += 1; return self[:idx]" with idx the
\* 0-based Python index; self[idx] raises IndexError when idx = len(self).
RECURSIVE scan_below(_, _, _)
scan_below(self, ceiling, idx) ==
    IF idx >= Len(self) THEN Raise("IndexError")
    ELSE IF self[idx + 1] <= ceiling THEN scan_below(self, ceiling, idx + 1)
    ELSE Ok(SubSeq(self, 1, idx))

get_nums_below(im, self, ceiling) ==
    IF im = "det" /\ max_elem(self) <= ceiling THEN Ok(self)
    ELSE scan_below(self, ceiling, 0)

(* ----------------------------- PrimesCache ----------------------------- *)

\* load_prime through list.append instead of OrderedList.append
load_prime_raw(prs, val) == Append(prs, val)

load_prime(prs, val) == append(prs, val)

possible_factors(im, prs, val) ==
    LET c == round_sqrt(im, val)
    IN  IF c.err # "none" THEN c ELSE get_nums_below(im, prs, c.val)

\* "not any(val % p_num == 0 for p_num in self._possible_factors(val))"
\* p_num is never 0 on a cache: the tables start at 2.  On a bare PrimesCache
\* 0 can be loaded, and val % 0 raises ZeroDivisionError.
PrimesCache_is_prime(im, prs, val) ==
    LET f == possible_factors(im, prs, val)
    IN  IF f.err # "none" THEN f
        ELSE IF \E i \in 1..Len(f.val) :
                    /\ f.val[i] = 0
                    /\ \A j \in 1..(i - 1) : val % f.val[j] # 0
             THEN Raise("ZeroDivisionError")
        ELSE Ok(~ \E i \in 1..Len(f.val) : val % f.val[i] = 0)

PrimesCache_highest_tested(prs) == max_elem(prs)

\* __len__: "return len(self._primes)"
PrimesCache_len(prs) == Len(prs)

(* -------------------------- SmallPrimesCache --------------------------- *)

RECURSIVE load_all(_, _, _)
load_all(prs, nums, i) ==
    IF i > Len(nums) THEN prs
    ELSE load_all(load_prime(prs, nums[i]), nums, i + 1)

\* "for num in SMALL_PRIME_NUMS: self.load_prime(num)" on an empty cache
SmallPrimesCache_init == load_all(<< >>, SMALL_PRIME_NUMS, 1)

SmallPrimesCache_highest_tested == SmallHighestTested

(* ------------------------- DynamicPrimesCache -------------------------- *)
\* self is the record [primes, hwm]: the OrderedList and _highest_tested.
\* A call returns [primes, hwm, err, val]: the object after the call and
\* the outcome.

DynamicPrimesCache_init ==
    [primes |-> SmallPrimesCache_init, hwm |-> SmallPrimesCache_highest_tested]

Dyn(self, r) ==
    [primes |-> self.primes, hwm |-> self.hwm, err |-> r.err, val |-> r.val]

\* an increment that skips a candidate
inc_highest_tested_by2(self) == [self EXCEPT !.hwm = @ + 2]

inc_highest_tested(self) == [self EXCEPT !.hwm = @ + 1]

\* the growth loop going one candidate past the target in both files
growth_needed_le(im, highest, target_ceil) == highest <= target_ceil

\* the guard of the growth loop of DynamicPrimesCache.is_prime:
\* "<" in src/prime.py:197, "<=" in src/primes/deterministic_prime.py:175
growth_needed(im, highest, target_ceil) ==
    IF im = "det" THEN highest <= target_ceil ELSE highest < target_ceil

RECURSIVE Dynamic_is_prime(_, _, _), test_next(_, _), grow(_, _, _)

\* test_next calls self.is_prime, which on a DynamicPrimesCache is the
\* overriding DynamicPrimesCache.is_prime
test_next(im, self) ==
    LET s1 == inc_highest_tested(self)
        test_num == s1.hwm
        r == Dynamic_is_prime(im, s1, test_num)
    IN  IF r.err # "none" THEN r
        ELSE IF r.val
             THEN [primes |-> load_prime(r.primes, test_num), hwm |-> r.hwm,
                   err |-> "none", val |-> TRUE]
        ELSE [primes |-> r.primes, hwm |-> r.hwm, err |-> "none", val |-> FALSE]

\* growth written with "if" in place of "while": at most one candidate a call
grow_once(im, self, target_ceil) ==
    IF growth_needed(im, self.hwm, target_ceil)
    THEN LET n == test_next(im, self)
         IN  IF n.err # "none" THEN n
             ELSE Dyn([primes |-> n.primes, hwm |-> n.hwm], Ok(TRUE))
    ELSE Dyn(self, Ok(TRUE))

\* "while self.highest_tested() < target_ceil: _ = self.test_next()"
grow(im, self, target_ceil) ==
    IF growth_needed(im, self.hwm, target_ceil)
    THEN LET n == test_next(im, self)
         IN  IF n.err # "none" THEN n
             ELSE grow(im, [primes |-> n.primes, hwm |-> n.hwm], target_ceil)
    ELSE Dyn(self, Ok(TRUE))

Dynamic_is_prime(im, self, val) ==
    LET t == round_sqrt(im, val)
    IN  IF t.err # "none" THEN Dyn(self, t)
        ELSE LET g == grow(im, self, t.val)
             IN  IF g.err # "none" THEN g
                 ELSE Dyn(g, PrimesCache_is_prime(im, g.primes, val))

(* ------------------------- SieveOfEratosthenes ------------------------- *)
\* Only src/primes/deterministic_prime.py has this class.  self is the
\* record [primes, composites, curr, freed, err]: _primes, _composites,
\* _curr, whether _composites was set to None, and the exception that ended
\* the constructor ("none" when it returned).

\* "@property def _curr_num(): return self._curr": the getter takes no
\* parameter, so every read of self._curr_num raises TypeError
curr_num(self) == Raise("TypeError")

\* the multiples 2c, 3c, ... of c that are <= ceil
multiples(c, ceil) == { m \in (2 * c)..ceil : m % c = 0 }

RECURSIVE setup(_, _)
setup(self, ceil) ==
    LET c == curr_num(self)
    IN  IF c.err # "none" THEN [self EXCEPT !.err = c.err]
        ELSE IF c.val <= ceil
        THEN IF c.val \notin self.composites
             THEN setup([self EXCEPT
                            !.primes = load_prime(@, c.val),
                            !.composites = @ \cup multiples(c.val, ceil),
                            !.curr = @ + 1], ceil)
             ELSE IF self.curr \notin self.composites
             THEN [self EXCEPT !.err = "KeyError"]
             ELSE setup([self EXCEPT !.composites = @ \ {self.curr},
                                     !.curr = @ + 1], ceil)
        ELSE [self EXCEPT !.composites = {}, !.freed = TRUE]

\* SieveOfEratosthenes(limit): __init__
SieveOfEratosthenes(limit) ==
    setup([primes |-> << >>, composites |-> {}, curr |-> 2, freed |-> FALSE,
           err |-> "none"], limit)

Sieve_highest_tested(self) == curr_num(self)

\* is_prime is inherited from PrimesCache
Sieve_is_prime(self, val) == PrimesCache_is_prime("det", self.primes, val)

(* ------------------------- probabilistic tests ------------------------- *)
\* src/primes/probabilistic_prime.py.  Loading the module runs
\* "from . import util" (line 12; util is no file of src/primes, and the
\* import fails outside a package) and then "class PredRes(ABC)" (line 15),
\* where nothing binds ABC: the load ends in ImportError or in NameError.
LoadErrors == {"ImportError", "NameError"}

\* the value of a call that returns None
None == "None"

\* the results: PrimeRes, MaybePrimeRes(num_tests), CompositeRes(witness)
PrimeRes == [cls |-> "PrimeRes", payload |-> << >>, is_prime |-> TRUE]

MaybePrimeRes(num_tests) ==
    [cls |-> "MaybePrimeRes", payload |-> << num_tests >>, is_prime |-> TRUE]

CompositeRes(witness) ==
    [cls |-> "CompositeRes", payload |-> << witness >>, is_prime |-> FALSE]

\* FermatTest.is_prime: the body is a docstring alone, the call returns None
FermatTest_is_prime(val) == Ok(None)

\* the name factorial is bound nowhere in the module
factorial(n) == Raise("NameError")

\* WilsonsThm.is_prime: "return (factorial(val - 1) + 1) % val == 0"
WilsonsThm_is_prime(val) ==
    LET f == factorial(val - 1)
    IN  IF f.err # "none" THEN f
        ELSE Ok((f.val + 1) % val = 0)

(* -------------------------------- gcd ---------------------------------- *)
\* src/primes/gcd.py imports nothing: loading the module stops at
\* "class GCD(ABC)" (line 6) with NameError.
GcdLoadErrors == {"NameError"}

\* Euclidean.recursive_calculate
RECURSIVE recursive_calculate(_, _)
recursive_calculate(a, b) ==
    IF b = 0 THEN a ELSE recursive_calculate(b, a % b)

\* Euclidean.calculate: "return self.recursive_calculate(a, b)"
Euclidean_calculate(a, b) == recursive_calculate(a, b)

\* Euclidean.div_calculate: "while b != 0: a, b = b, a % b" and "return a"
RECURSIVE div_calculate(_, _)
div_calculate(a, b) ==
    IF b # 0 THEN div_calculate(b, a % b) ELSE a

\* Stein.calculate.  "a_even = bool(a % 2)" is true when a is odd; a >> 1
\* is a \div 2 and x << 1 is 2 * x on the naturals.
RECURSIVE Stein_calculate(_, _)
Stein_calculate(a, b) ==
    IF a = 0 THEN b
    ELSE IF b = 0 THEN a
    ELSE IF a = b THEN a
    ELSE LET a_even == (a % 2) # 0
             b_even == (b % 2) # 0
         IN  IF a_even /\ b_even
             THEN 2 * Stein_calculate(a \div 2, b \div 2)
             ELSE IF a_even THEN Stein_calculate(a \div 2, b)
             ELSE IF b_even THEN Stein_calculate(a, b \div 2)
             ELSE Stein_calculate(IF a >= b THEN a - b ELSE b - a,
                                  IF a <= b THEN a ELSE b)

\* "for elem in elems: curried_gcd = self.calculate(curried_gcd, elem)"
RECURSIVE gcd_fold(_, _, _)
gcd_fold(curried_gcd, lst, i) ==
    IF i > Len(lst) THEN curried_gcd
    ELSE gcd_fold(Euclidean_calculate(curried_gcd, lst[i]), lst, i + 1)

\* GCD.gcd_many on a Euclidean: the value returned and the caller's list
\* after the call; "curried_gcd = elems.pop()" removes the last element of
\* the list that was passed in
gcd_many(lst) ==
    IF Len(lst) = 0 THEN [val |-> -1, elems |-> lst]
    ELSE IF Len(lst) = 1 THEN [val |-> lst[1], elems |-> lst]
    ELSE LET rest == SubSeq(lst, 1, Len(lst) - 1)
         IN  [val |-> gcd_fold(lst[Len(lst)], rest, 1), elems |-> rest]

(* ------------------------------- state --------------------------------- *)

VARIABLES
    impl,    \* which source file the object's class comes from
    kind,    \* the class of the object under test
    primes,  \* the OrderedList: the list itself, or a cache's _primes
    hwm,     \* DynamicPrimesCache._highest_tested (unused by other classes)
    sieve,   \* SieveOfEratosthenes: _composites, _curr, and whether
             \* _composites was set to None
    elems,   \* the caller's list that is handed to GCD.gcd_many
    res,     \* the last call on the object and its outcome
    th       \* the callers that share the object, each inside is_prime

vars == << impl, kind, primes, hwm, sieve, elems, res, th >>

\* the sieve fields of an object that is no sieve
NoSieve == [composites |-> {}, curr |-> 0, freed |-> FALSE]

Threads == {1, 2}

\* a caller: where it is in DynamicPrimesCache.is_prime(val) and the locals
\* target_ceil (is_prime) and test_num (test_next) of its frames
Caller(p, v) ==
    [pc |-> p, val |-> v, target_ceil |-> 0, test_num |-> 0,
     err |-> "none", out |-> << >>]

NoCallers == [t \in Threads |-> Caller("idle", 0)]

\* highest_tested() of the object, for the classes where the call returns
highest_tested ==
    CASE kind = "DynamicPrimesCache" -> hwm
      [] kind = "SmallPrimesCache" -> SmallPrimesCache_highest_tested
      [] OTHER -> PrimesCache_highest_tested(primes)

\* res records the operation, its argument list, the exception raised
\* ("none" when it returned) and the list of values returned: one value, or
\* none when the call raised or returned None.
Returned(op, args, r) ==
    [op |-> op, args |-> args, err |-> r.err,
     val |-> IF r.err = "none" THEN << r.val >> ELSE << >>]

ReturnedNone(op, args) == [op |-> op, args |-> args, err |-> "none", val |-> << >>]

Constructed == ReturnedNone("init", << >>)

(* --------------------- SmallPrimesCache / Dynamic ---------------------- *)

\* table primes, their pairwise products, and values around the squares of
\* the first candidates above the table
TableProducts ==
    { SMALL_PRIME_NUMS[i] * SMALL_PRIME_NUMS[j] :
        i, j \in 1..Len(SMALL_PRIME_NUMS) }

LargeQueries ==
    UNION { { w * w - 2, w * w - 1, w * w, w * (w + 2) } :
            w \in (SmallHighestTested - 3)..MaxWatermark }

Queries == (0..MaxSmallQuery) \cup TableProducts \cup LargeQueries

Init ==
    /\ impl \in Impls
    /\ kind \in {"SmallPrimesCache", "DynamicPrimesCache"}
    /\ primes = SmallPrimesCache_init
    /\ hwm = SmallPrimesCache_highest_tested
    /\ sieve = NoSieve
    /\ elems = << >>
    /\ res = Constructed
    /\ th = NoCallers

\* is_prime of a SmallPrimesCache answered by the growing is_prime
IsPrime_growing(v) ==
    /\ kind \in {"SmallPrimesCache", "DynamicPrimesCache"}
    /\ v < (MaxWatermark + 1) * (MaxWatermark + 1)
    /\ LET r == Dynamic_is_prime(impl, [primes |-> primes, hwm |-> hwm], v)
       IN  /\ primes' = r.primes
           /\ hwm' = r.hwm
           /\ res' = Returned("is_prime", << v >>, r)
    /\ UNCHANGED << elems, sieve, impl, kind, th >>

\* obj.is_prime(v)
IsPrime(v) ==
    /\ kind \in {"SmallPrimesCache", "DynamicPrimesCache"}
    /\ v < (MaxWatermark + 1) * (MaxWatermark + 1)
    /\ LET r == IF kind = "DynamicPrimesCache"
                THEN Dynamic_is_prime(impl, [primes |-> primes, hwm |-> hwm], v)
                ELSE Dyn([primes |-> primes, hwm |-> hwm],
                         PrimesCache_is_prime(impl, primes, v))
       IN  /\ primes' = r.primes
           /\ hwm' = r.hwm
           /\ res' = Returned("is_prime", << v >>, r)
    /\ UNCHANGED << elems, sieve, impl, kind, th >>

\* obj.test_next()
TestNext ==
    /\ kind = "DynamicPrimesCache"
    /\ hwm < MaxWatermark
    /\ LET r == test_next(impl, [primes |-> primes, hwm |-> hwm])
       IN  /\ primes' = r.primes
           /\ hwm' = r.hwm
           /\ res' = Returned("test_next", << >>, r)
    /\ UNCHANGED << elems, sieve, impl, kind, th >>

\* arguments of _possible_factors: below the table's first prime, inside the
\* table, and with a root above the table
FactorQueries == {1, 30, (SmallHighestTested + 1) * (SmallHighestTested + 1)}

\* obj._possible_factors(v)
PossibleFactors(v) ==
    /\ kind \in {"SmallPrimesCache", "DynamicPrimesCache"}
    /\ res' = Returned("possible_factors", << v >>,
                       possible_factors(impl, primes, v))
    /\ UNCHANGED << elems, sieve, impl, kind, primes, hwm, th >>

\* obj.highest_tested()
HighestTested ==
    /\ kind \in {"SmallPrimesCache", "DynamicPrimesCache"}
    /\ res' = Returned("highest_tested", << >>, Ok(highest_tested))
    /\ UNCHANGED << elems, sieve, impl, kind, primes, hwm, th >>

\* len(obj)
LenOf ==
    /\ kind \in {"SmallPrimesCache", "DynamicPrimesCache"}
    /\ res' = Returned("len", << >>, Ok(PrimesCache_len(primes)))
    /\ UNCHANGED << elems, sieve, impl, kind, primes, hwm, th >>

CrossQueries == 2..MaxCrossQuery

\* ceilings >= floor(sqrt(n)) for every cross-checked n
SieveLimits == { FloorSqrt(MaxCrossQuery), FloorSqrt(MaxCrossQuery) + 1 }

\* the cross-check of the two caches on n:
\* "d.is_prime(n) == SieveOfEratosthenes(limit).is_prime(n)" with d the
\* DynamicPrimesCache under test; the operands are evaluated left to right
\* and the first exception ends the comparison
CrossCheck(limit, n) ==
    /\ kind = "DynamicPrimesCache"
    /\ LET d == Dynamic_is_prime(impl, [primes |-> primes, hwm |-> hwm], n)
           s == SieveOfEratosthenes(limit)
           q == Sieve_is_prime(s, n)
       IN  /\ primes' = d.primes
           /\ hwm' = d.hwm
           /\ res' = Returned("cross_check", << limit, n >>,
                       IF d.err # "none" THEN Raise(d.err)
                       ELSE IF s.err # "none" THEN Raise(s.err)
                       ELSE IF q.err # "none" THEN Raise(q.err)
                       ELSE Ok(d.val = q.val))
    /\ UNCHANGED << elems, sieve, impl, kind, th >>

Next ==
    \/ \E v \in Queries : IsPrime(v)
    \/ TestNext
    \/ \E limit \in SieveLimits, n \in CrossQueries : CrossCheck(limit, n)
    \/ \E v \in FactorQueries : PossibleFactors(v)
    \/ HighestTested
    \/ LenOf

Spec == Init /\ [][Next]_vars

(* ------------- load_prime on SmallPrimesCache / Dynamic ---------------- *)
\* load_prime is a public method of every cache; here callers mix it with
\* is_prime and test_next.

\* not above the table's maximum (no-ops) and above highest_tested()
LoadValues == {0, SmallHighestTested - 1} \cup ((SmallHighestTested + 1)..MaxLoad)

LoadQueries ==
    {4, SmallHighestTested + 1}
        \cup { w * w : w \in (SmallHighestTested + 1)..MaxWatermark }

\* cache.load_prime(v)
CacheLoadPrime(v) ==
    /\ kind \in {"SmallPrimesCache", "DynamicPrimesCache"}
    /\ primes' = load_prime(primes, v)
    /\ res' = ReturnedNone("load_prime", << v >>)
    /\ UNCHANGED << elems, sieve, impl, kind, hwm, th >>

NextLoad ==
    \/ \E v \in LoadValues : CacheLoadPrime(v)
    \/ \E v \in LoadQueries : IsPrime(v)
    \/ TestNext

SpecLoad == Init /\ [][NextLoad]_vars

(* ---------------------- OrderedList / PrimesCache ---------------------- *)

\* from just below the empty list's maximum up to MaxItem
Items == (EmptyMax - 1)..MaxItem

InitList ==
    /\ impl \in Impls
    /\ kind \in {"OrderedList", "PrimesCache"}
    /\ primes = << >>
    /\ hwm = SmallPrimesCache_highest_tested
    /\ sieve = NoSieve
    /\ elems = << >>
    /\ res = Constructed
    /\ th = NoCallers

\* lst.append(v)
AppendItem(v) ==
    /\ kind = "OrderedList"
    /\ primes' = append(primes, v)
    /\ res' = ReturnedNone("append", << v >>)
    /\ UNCHANGED << elems, sieve, impl, kind, hwm, th >>

\* lst.get_nums_below(c)
GetNumsBelow(c) ==
    /\ kind = "OrderedList"
    /\ res' = Returned("get_nums_below", << c >>, get_nums_below(impl, primes, c))
    /\ UNCHANGED << elems, sieve, impl, kind, primes, hwm, th >>

\* cache.load_prime(v)
LoadPrime(v) ==
    /\ kind = "PrimesCache"
    /\ primes' = load_prime(primes, v)
    /\ res' = ReturnedNone("load_prime", << v >>)
    /\ UNCHANGED << elems, sieve, impl, kind, hwm, th >>

NextList ==
    \/ \E v \in Items : AppendItem(v)
    \/ \E c \in Items : GetNumsBelow(c)
    \/ \E v \in Items : LoadPrime(v)

SpecList == InitList /\ [][NextList]_vars

(* ------------- two callers inside DynamicPrimesCache.is_prime ---------- *)
\* The classes take no lock.  Each caller runs is_prime(val) statement by
\* statement on the shared object; a statement is one step.

ConcQueries ==
    {SmallHighestTested + 1}
        \cup { w * w : w \in (SmallHighestTested + 1)..MaxWatermark }

InitConc ==
    /\ impl \in Impls
    /\ kind = "DynamicPrimesCache"
    /\ primes = SmallPrimesCache_init
    /\ hwm = SmallPrimesCache_highest_tested
    /\ sieve = NoSieve
    /\ elems = << >>
    /\ res = Constructed
    /\ th \in [Threads -> { Caller("start", v) : v \in ConcQueries }]

Self == [primes |-> primes, hwm |-> hwm]

\* is_prime: "target_ceil = round_sqrt(val)"
T_target(t) ==
    /\ th[t].pc = "start"
    /\ LET r == round_sqrt(impl, th[t].val)
       IN  th' = IF r.err # "none"
                 THEN [th EXCEPT ![t].pc = "done", ![t].err = r.err]
                 ELSE [th EXCEPT ![t].pc = "loop", ![t].target_ceil = r.val]
    /\ UNCHANGED << elems, sieve, impl, kind, primes, hwm, res >>

\* is_prime: "while self.highest_tested() < target_ceil:"
T_loop(t) ==
    /\ th[t].pc = "loop"
    /\ th' = [th EXCEPT ![t].pc =
                IF growth_needed(impl, hwm, th[t].target_ceil)
                THEN "inc" ELSE "final"]
    /\ UNCHANGED << elems, sieve, impl, kind, primes, hwm, res >>

\* inc_highest_tested: "self._highest_tested += 1"
T_inc(t) ==
    /\ th[t].pc = "inc"
    /\ hwm' = inc_highest_tested(Self).hwm
    /\ th' = [th EXCEPT ![t].pc = "read"]
    /\ UNCHANGED << elems, sieve, impl, kind, primes, res >>

\* inc_highest_tested: "return self.highest_tested()", bound to test_num
T_read(t) ==
    /\ th[t].pc = "read"
    /\ th' = [th EXCEPT ![t].pc = "test", ![t].test_num = hwm]
    /\ UNCHANGED << elems, sieve, impl, kind, primes, hwm, res >>

\* test_next: "if self.is_prime(test_num):"
T_test(t) ==
    /\ th[t].pc = "test"
    /\ LET r == Dynamic_is_prime(impl, Self, th[t].test_num)
       IN  /\ primes' = r.primes
           /\ hwm' = r.hwm
           /\ th' = IF r.err # "none"
                    THEN [th EXCEPT ![t].pc = "done", ![t].err = r.err]
                    ELSE [th EXCEPT ![t].pc = IF r.val THEN "load" ELSE "loop"]
    /\ UNCHANGED << elems, sieve, impl, kind, res >>

\* test_next: "self.load_prime(test_num)"
T_load(t) ==
    /\ th[t].pc = "load"
    /\ primes' = load_prime(primes, th[t].test_num)
    /\ th' = [th EXCEPT ![t].pc = "loop"]
    /\ UNCHANGED << elems, sieve, impl, kind, hwm, res >>

\* is_prime: "return super().is_prime(val)"
T_final(t) ==
    /\ th[t].pc = "final"
    /\ LET r == PrimesCache_is_prime(impl, primes, th[t].val)
       IN  th' = IF r.err # "none"
                 THEN [th EXCEPT ![t].pc = "done", ![t].err = r.err]
                 ELSE [th EXCEPT ![t].pc = "done", ![t].out = << r.val >>]
    /\ UNCHANGED << elems, sieve, impl, kind, primes, hwm, res >>

NextConc ==
    \E t \in Threads :
        \/ T_target(t)
        \/ T_loop(t)
        \/ T_inc(t)
        \/ T_read(t)
        \/ T_test(t)
        \/ T_load(t)
        \/ T_final(t)

SpecConc == InitConc /\ [][NextConc]_vars

(* ------------------- calls on freshly built objects -------------------- *)
\* SieveOfEratosthenes is built and then asked once; a constructor that
\* raises leaves no object, and the exception is the outcome of the whole
\* expression.  The fields the constructor had assigned when it ended are
\* kept in primes and sieve.  The tests of probabilistic_prime.py keep no
\* state: each is imported, built and asked once.

SieveQueries == 0..MaxSieveQuery

InitFresh ==
    /\ impl = "det"
    /\ kind = "NoObject"
    /\ primes = << >>
    /\ hwm = SmallPrimesCache_highest_tested
    /\ sieve = NoSieve
    /\ elems = << >>
    /\ res = Constructed
    /\ th = NoCallers

SieveFields(s) == [composites |-> s.composites, curr |-> s.curr, freed |-> s.freed]

\* the outcome of "SieveOfEratosthenes(limit).<op>(<args>)", where r is the
\* outcome of the method call on the constructed sieve s
SieveCall(s, op, args, r) ==
    Returned(op, args, IF s.err # "none" THEN Raise(s.err) ELSE r)

\* SieveOfEratosthenes(limit)
SieveConstruct(limit) ==
    LET s == SieveOfEratosthenes(limit)
    IN  /\ kind' = "SieveOfEratosthenes"
        /\ primes' = s.primes
        /\ sieve' = SieveFields(s)
        /\ res' = IF s.err # "none"
                  THEN Returned("init", << limit >>, Raise(s.err))
                  ELSE ReturnedNone("init", << limit >>)
        /\ UNCHANGED << elems, impl, hwm, th >>

\* SieveOfEratosthenes(limit).highest_tested()
SieveHighestTested(limit) ==
    LET s == SieveOfEratosthenes(limit)
    IN  /\ kind' = "SieveOfEratosthenes"
        /\ primes' = s.primes
        /\ sieve' = SieveFields(s)
        /\ res' = SieveCall(s, "highest_tested", << limit >>,
                            Sieve_highest_tested(s))
        /\ UNCHANGED << elems, impl, hwm, th >>

\* SieveOfEratosthenes(limit).is_prime(v)
SieveIsPrime(limit, v) ==
    LET s == SieveOfEratosthenes(limit)
    IN  /\ kind' = "SieveOfEratosthenes"
        /\ primes' = s.primes
        /\ sieve' = SieveFields(s)
        /\ res' = SieveCall(s, "is_prime", << limit, v >>, Sieve_is_prime(s, v))
        /\ UNCHANGED << elems, impl, hwm, th >>

\* "from primes.probabilistic_prime import WilsonsThm" and then
\* "WilsonsThm().is_prime(n)"
WilsonIsPrime(n) ==
    \E e \in LoadErrors :
        LET load == Raise(e)
            r == IF load.err # "none" THEN load ELSE WilsonsThm_is_prime(n)
        IN  /\ kind' = "WilsonsThm"
            /\ primes' = << >>
            /\ sieve' = NoSieve
            /\ res' = Returned("is_prime", << n >>, r)
            /\ UNCHANGED << elems, impl, hwm, th >>

\* "from primes.probabilistic_prime import FermatTest" and then
\* "FermatTest().is_prime(n)"
FermatIsPrime(n) ==
    \E e \in LoadErrors :
        LET load == Raise(e)
            r == IF load.err # "none" THEN load ELSE FermatTest_is_prime(n)
        IN  /\ kind' = "FermatTest"
            /\ primes' = << >>
            /\ sieve' = NoSieve
            /\ res' = IF r.err = "none" /\ r.val = None
                      THEN ReturnedNone("is_prime", << n >>)
                      ELSE Returned("is_prime", << n >>, r)
            /\ UNCHANGED << elems, impl, hwm, th >>

NextFresh ==
    \/ \E limit \in 0..MaxSieveLimit : SieveConstruct(limit)
    \/ \E limit \in 0..MaxSieveLimit : SieveHighestTested(limit)
    \/ \E limit \in 0..MaxSieveLimit, v \in SieveQueries : SieveIsPrime(limit, v)
    \/ \E n \in 0..MaxCandidate : WilsonIsPrime(n)
    \/ \E n \in 0..MaxCandidate : FermatIsPrime(n)

SpecFresh == InitFresh /\ [][NextFresh]_vars

(* ------------------------------- gcd calls ----------------------------- *)
\* A caller imports src/primes/gcd.py, builds a Stein or a Euclidean and
\* calls it; gcd_many is called on the caller's list object elems.

GcdArgs == 0..MaxGcdArg

GcdElems == {4, 6, 9}

GcdLists ==
    UNION { [1..n -> GcdElems] : n \in 0..MaxListLen }

InitGcd ==
    /\ impl = "det"
    /\ kind = "NoObject"
    /\ primes = << >>
    /\ hwm = SmallPrimesCache_highest_tested
    /\ sieve = NoSieve
    /\ elems \in GcdLists
    /\ res = Constructed
    /\ th = NoCallers

\* Stein().calculate(a, b)
SteinCalculate(a, b) ==
    \E e \in GcdLoadErrors :
        LET load == Raise(e)
            r == IF load.err # "none" THEN load ELSE Ok(Stein_calculate(a, b))
        IN  /\ kind' = "Stein"
            /\ res' = Returned("calculate", << a, b >>, r)
            /\ UNCHANGED << impl, primes, hwm, sieve, elems, th >>

\* Euclidean().calculate(a, b)
EuclideanCalculate(a, b) ==
    \E e \in GcdLoadErrors :
        LET load == Raise(e)
            r == IF load.err # "none" THEN load ELSE Ok(Euclidean_calculate(a, b))
        IN  /\ kind' = "Euclidean"
            /\ res' = Returned("calculate", << a, b >>, r)
            /\ UNCHANGED << impl, primes, hwm, sieve, elems, th >>

\* Euclidean().div_calculate(a, b)
EuclideanDivCalculate(a, b) ==
    \E e \in GcdLoadErrors :
        LET load == Raise(e)
            r == IF load.err # "none" THEN load ELSE Ok(div_calculate(a, b))
        IN  /\ kind' = "Euclidean"
            /\ res' = Returned("div_calculate", << a, b >>, r)
            /\ UNCHANGED << impl, primes, hwm, sieve, elems, th >>

\* Euclidean().gcd_many(elems)
GcdMany ==
    \E e \in GcdLoadErrors :
        LET load == Raise(e)
            g == gcd_many(elems)
        IN  /\ kind' = "Euclidean"
            /\ elems' = IF load.err # "none" THEN elems ELSE g.elems
            /\ res' = Returned("gcd_many", elems,
                               IF load.err # "none" THEN load ELSE Ok(g.val))
            /\ UNCHANGED << impl, primes, hwm, sieve, th >>

NextGcd ==
    \/ \E a, b \in GcdArgs : SteinCalculate(a, b)
    \/ \E a, b \in GcdArgs : EuclideanCalculate(a, b)
    \/ \E a, b \in GcdArgs : EuclideanDivCalculate(a, b)
    \/ GcdMany

SpecGcd == InitGcd /\ [][NextGcd]_vars

(* ------------------------------ claims --------------------------------- *)

TablePrimes == { SMALL_PRIME_NUMS[i] : i \in 1..Len(SMALL_PRIME_NUMS) }

Growing == kind \in {"SmallPrimesCache", "DynamicPrimesCache"}

\* C1 (as claimed, for src/prime.py): every DynamicPrimesCache.is_prime(v)
\* call with v >= 2 returns normally, and returns true iff v is prime.
C1_IsPrimeCorrect ==
    (impl = "prime" /\ kind = "DynamicPrimesCache" /\ res.op = "is_prime"
        /\ res.args[1] >= 2)
        => (res.err = "none" /\ res.val[1] = IsPrimeNumber(res.args[1]))

\* C2: after construction and after every test_next or is_prime call that
\* completed, the sequence of a DynamicPrimesCache is exactly the primes in
\* [2, highest_tested()] in increasing order.
C2_Complete ==
    (kind = "DynamicPrimesCache" /\ res.err = "none"
        /\ res.op \in {"init", "is_prime", "test_next", "cross_check"})
        => primes = PrimesUpTo(highest_tested)

\* C2 witness: the cache has grown past the table and the call completed
C2_Witness ==
    /\ kind = "DynamicPrimesCache"
    /\ res.op \in {"is_prime", "test_next"}
    /\ res.err = "none"
    /\ hwm > SmallHighestTested + 1
    /\ Len(primes) > Len(SMALL_PRIME_NUMS)

\* C3 (as claimed): for every n, a DynamicPrimesCache and a
\* SieveOfEratosthenes built with a ceiling >= floor(sqrt(n)) return the same
\* value from is_prime(n), whatever queries came before.
C3_CachesAgree ==
    res.op = "cross_check" => (res.err = "none" /\ res.val = << TRUE >>)

\* C4 (as claimed, for src/prime.py): is_prime of a SmallPrimesCache and of a
\* DynamicPrimesCache returns true for every table prime and false for every
\* product of two table primes.
C4_TableAndProducts ==
    (impl = "prime" /\ Growing /\ res.op = "is_prime")
        => /\ res.args[1] \in TablePrimes
                => (res.err = "none" /\ res.val[1] = TRUE)
           /\ res.args[1] \in TableProducts
                => (res.err = "none" /\ res.val[1] = FALSE)

\* C5: an OrderedList built by append calls alone is strictly increasing, and
\* every append leaves the previous contents as a prefix.
C5_Monotonic ==
    /\ [](kind = "OrderedList" => StrictlyIncreasing(primes))
    /\ [][kind = "OrderedList" => IsPrefix(primes, primes')]_vars

\* C5 witness: appends were accepted and the last one was handled
C5_Witness ==
    /\ kind = "OrderedList"
    /\ res.op = "append"
    /\ Len(primes) >= 3

\* C6: append(v) and load_prime(v) with v not above the current maximum
\* change neither the sequence, its length nor highest_tested(), and raise
\* nothing.
C6_SilentNoOp ==
    [][(res'.op \in {"append", "load_prime"}
            /\ res'.args[1] <= max_elem(primes))
        => /\ primes' = primes
           /\ Len(primes') = Len(primes)
           /\ highest_tested' = highest_tested
           /\ res'.err = "none"]_vars

\* C6 witness: append(5); append(3) has left the list [5]
C6_Witness ==
    /\ primes = << 5 >>
    /\ res.op \in {"append", "load_prime"}
    /\ res.args = << 3 >>

\* C7 (as claimed): get_nums_below(ceiling) returns, in order, exactly the
\* elements <= ceiling and never fails.
C7_GetNumsBelow ==
    res.op = "get_nums_below"
        => (res.err = "none"
            /\ res.val[1] = ElementsAtMost(primes, res.args[1]))

Fresh ==
    /\ kind = "DynamicPrimesCache"
    /\ primes = SmallPrimesCache_init
    /\ hwm = SmallPrimesCache_highest_tested
    /\ res.op = "init"

\* C10 (as claimed, for src/prime.py): is_prime(101) on a fresh
\* DynamicPrimesCache grows the cache by exactly one step, returns true and
\* leaves highest_tested() = 101.
C10_Grows101 ==
    [][(impl = "prime" /\ Fresh /\ res'.op = "is_prime" /\ res'.args = << 101 >>)
        => /\ res'.err = "none"
           /\ res'.val = << TRUE >>
           /\ hwm' = hwm + 1
           /\ highest_tested' = 101]_vars

\* C11: on a DynamicPrimesCache, an is_prime(n) call that directly follows
\* an is_prime(n) call with the same n ends the same way (same value, or same
\* exception) and performs no growth: highest_tested() and the sequence stay
\* as the first call left them.
C11_Idempotent ==
    [][(kind = "DynamicPrimesCache" /\ res.op = "is_prime"
            /\ res'.op = "is_prime" /\ res'.args = res.args)
        => /\ res'.err = res.err
           /\ res'.val = res.val
           /\ highest_tested' = highest_tested
           /\ primes' = primes]_vars

\* C11 witness: is_prime(n) has returned for an n whose root lies above the
\* table, on a cache that has grown; the repeated call starts from this state
C11_Witness ==
    /\ kind = "DynamicPrimesCache"
    /\ res.op = "is_prime"
    /\ res.err = "none"
    /\ FloorSqrt(res.args[1]) > SmallHighestTested
    /\ hwm >= FloorSqrt(res.args[1])

\* C12 (as claimed, for src/prime.py): is_prime(2) returns true, and
\* is_prime(1) and is_prime(0) fail with an invalid-input error (ValueError)
\* instead of returning a boolean, leaving the cache as it was.
C12_SmallInputs ==
    [][(impl = "prime" /\ Growing /\ res'.op = "is_prime")
        => /\ res'.args = << 2 >> => (res'.err = "none" /\ res'.val = << TRUE >>)
           /\ res'.args[1] \in {0, 1}
                => /\ res'.err = "ValueError"
                   /\ primes' = primes
                   /\ highest_tested' = highest_tested]_vars

\* the exceptions of Python that report a value or an index out of range
RangeErrors == {"IndexError", "ValueError"}

\* C13 (as claimed): is_prime(v) on a SmallPrimesCache, which cannot grow,
\* with floor(sqrt(v)) above highest_tested() fails with an out-of-range
\* error and returns no boolean.
C13_OutOfRange ==
    (kind = "SmallPrimesCache" /\ res.op = "is_prime"
        /\ FloorSqrt(res.args[1]) > highest_tested)
        => (res.err \in RangeErrors /\ res.val = << >>)

\* C14 (as claimed): for every ceiling L >= 2, SieveOfEratosthenes(L) is
\* constructed and its highest_tested() returns exactly L.
C14_SieveWatermark ==
    (kind = "SieveOfEratosthenes" /\ res.op = "highest_tested"
        /\ res.args[1] >= 2)
        => (res.err = "none" /\ res.val = << res.args[1] >>)

\* C15 (as claimed): for every ceiling L, the constructor of
\* SieveOfEratosthenes(L) returns and leaves the cached sequence equal to
\* the primes in [2, L] in increasing order.
C15_SievePrimes ==
    (kind = "SieveOfEratosthenes" /\ res.op = "init")
        => (res.err = "none" /\ primes = PrimesUpTo(res.args[1]))

\* C16 (as claimed): for every n >= 2, WilsonsThm.is_prime(n) returns a
\* verdict, and the verdict is prime iff n is prime (5 prime, 6 composite).
C16_WilsonExact ==
    (kind = "WilsonsThm" /\ res.op = "is_prime" /\ res.args[1] >= 2)
        => /\ res.err = "none"
           /\ res.val[1].is_prime = IsPrimeNumber(res.args[1])

\* C17 (as claimed): for every prime n, one round of FermatTest.is_prime(n)
\* returns ProbablePrime(1): never Composite, never an absent result.
C17_FermatRound ==
    (kind = "FermatTest" /\ res.op = "is_prime" /\ IsPrimeNumber(res.args[1]))
        => /\ res.err = "none"
           /\ res.val = << MaybePrimeRes(1) >>

QueryOps == {"is_prime", "possible_factors", "highest_tested", "len"}

C19_ScanStopsInList ==
    (impl = "prime" /\ kind = "DynamicPrimesCache" /\ res.op = "is_prime"
        /\ res.args[1] >= 0)
        => res.err # "IndexError"

C21_Bootstrap ==
    [][(kind = "DynamicPrimesCache" /\ res'.op = "test_next")
        => /\ FloorSqrt(hwm + 1) <= hwm
           /\ \A q \in 2..FloorSqrt(hwm + 1) :
                 IsPrimeNumber(q) => \E i \in 1..Len(primes) : primes[i] = q
           /\ hwm' = hwm + 1
           /\ impl = "prime"
                => /\ res'.err = "none"
                   /\ primes' = IF res'.val[1] THEN Append(primes, hwm + 1)
                                 ELSE primes]_vars

\* C21 witness: test_next has returned true and cached its candidate, above
\* the first candidate after the table
C21_Witness ==
    /\ kind = "DynamicPrimesCache"
    /\ res.op = "test_next"
    /\ res.err = "none"
    /\ res.val = << TRUE >>
    /\ hwm > SmallHighestTested + 1
    /\ primes[Len(primes)] = hwm

\* C22 (as claimed): in every state of a SmallPrimesCache or a
\* DynamicPrimesCache reached by load_prime, test_next and is_prime calls,
\* highest_tested() is >= the maximum of the cached sequence, and no call
\* makes highest_tested() decrease.
C22_WatermarkCoversMax ==
    /\ [](Growing => highest_tested >= max_elem(primes))
    /\ [][Growing => highest_tested' >= highest_tested]_vars

\* the greatest common divisor of a and b, not both zero
GcdOf(a, b) ==
    CHOOSE d \in 1..(a + b) :
        /\ a % d = 0 /\ b % d = 0
        /\ \A c \in 1..(a + b) : (a % c = 0 /\ b % c = 0) => c <= d

\* the greatest common divisor of the elements of a non-empty list of
\* positive integers
GcdOfAll(lst) ==
    CHOOSE d \in 1..lst[1] :
        /\ \A i \in 1..Len(lst) : lst[i] % d = 0
        /\ \A c \in 1..lst[1] :
              (\A i \in 1..Len(lst) : lst[i] % c = 0) => c <= d

\* C23 (as claimed): for all a, b >= 0 not both zero, Stein.calculate(a, b)
\* returns the greatest common divisor of a and b.
C23_SteinIsGcd ==
    (kind = "Stein" /\ res.op = "calculate" /\ res.args # << 0, 0 >>)
        => /\ res.err = "none"
           /\ res.val = << GcdOf(res.args[1], res.args[2]) >>

\* C24 (as claimed): gcd_many on a list of two or more positive integers
\* returns the gcd of all its elements and leaves the caller's list as it
\* was.
C24_GcdManyKeepsList ==
    [][(res'.op = "gcd_many" /\ Len(elems) >= 2)
        => /\ res'.err = "none"
           /\ res'.val = << GcdOfAll(elems) >>
           /\ elems' = elems]_vars

\* C25 (as claimed): the loop of SieveOfEratosthenes._setup with ceiling L
\* runs to its exit: no removal fails, the candidate has passed L, every
\* marked composite was discarded and the composite set was released.
C25_CompositesDiscarded ==
    (kind = "SieveOfEratosthenes" /\ res.op = "init")
        => /\ res.err # "KeyError"
           /\ sieve.curr > res.args[1]
           /\ sieve.composites = {}
           /\ sieve.freed

AllDone == \A t \in Threads : th[t].pc = "done"

\* C8 (as claimed): when two callers run is_prime concurrently on one
\* DynamicPrimesCache, growth is serialized, so that once both calls have
\* ended the sequence is exactly the primes <= highest_tested().
C8_GrowthSerialized ==
    AllDone => primes = PrimesUpTo(highest_tested)

\* C9 (as claimed): every concurrent is_prime(v) call that returns a value
\* returns the true primality of v.
C9_ConcurrentAnswer ==
    \A t \in Threads :
        (th[t].pc = "done" /\ th[t].err = "none")
            => th[t].out[1] = IsPrimeNumber(th[t].val)

====
